---- MODULE Spec2Model ----
(***************************************************************************)
(* Model of run_algorithm (rt106SpecificAdaptorCode.py): the adaptor that  *)
(* clears the scratch directory, fetches the quantification table, runs    *)
(* the three MOHAtool stages, publishes their outputs and parses the       *)
(* heterogeneity metrics file into the result context.                     *)
(*                                                                         *)
(* Text is modelled as a sequence of pieces: a piece is either one         *)
(* whitespace character ("\t", " ", "\n") or a word holding no whitespace. *)
(* strip() and split('\t') are computed on the pieces, tokens are the      *)
(* concatenated strings.                                                   *)
(***************************************************************************)
EXTENDS Integers, Sequences, FiniteSets, TLC

VARIABLES
    pc,               \* position in run_algorithm
    run,              \* number of the current invocation of run_algorithm
    context,          \* the context argument: slide, region, branch, force
    ws,               \* the scratch directory /rt106/data: name -> entry
    cell_quant_path,  \* local of run_algorithm (line 21)
    status,           \* local of run_algorithm
    hetdict,          \* local of run_algorithm (line 101); Unbound before
    nuclear_image_path, \* local of run_algorithm (line 106)
    outcome,          \* how the invocation ended: returned value or exception
    trace,            \* the external calls of this invocation, in order
    running,          \* the stages whose MOHAtool process is running
    resp,             \* the collaborators' answers given in this invocation
    prev              \* answers and outcome of the previous invocation, and the
                      \* scratch directory as this invocation found it

vars == <<pc, run, context, ws, cell_quant_path, status, hetdict,
          nuclear_image_path, outcome, trace, running, resp, prev>>

----------------------------------------------------------------------------
(* Bounds of the model *)

MaxRuns == 2
MaxCols == 3

----------------------------------------------------------------------------
(* Python values *)

PyInt(n) == [type |-> "int", int |-> n, str |-> ""]
PyStr(s) == [type |-> "str", int |-> 0, str |-> s]
PyType(v) == [type |-> "type", int |-> 0, str |-> v.type]
PyNone == [type |-> "NoneType", int |-> 0, str |-> ""]

\* Python's ==: values of unrelated types are never equal.
PyEq(a, b) == a.type = b.type /\ a = b

Unbound == [bound |-> FALSE, dict |-> [k \in {} |-> ""]]
Bound(d) == [bound |-> TRUE, dict |-> d]
EmptyDict == [k \in {} |-> ""]

----------------------------------------------------------------------------
(* Text: strip, split, readline *)

TAB == "\t"
SP == " "
NL == "\n"
Whitespace == {TAB, SP, NL}

RECURSIVE LStrip(_)
LStrip(s) ==
    IF s = <<>> THEN <<>>
    ELSE IF Head(s) \in Whitespace THEN LStrip(Tail(s)) ELSE s

RECURSIVE RStrip(_)
RStrip(s) ==
    IF s = <<>> THEN <<>>
    ELSE IF s[Len(s)] \in Whitespace THEN RStrip(SubSeq(s, 1, Len(s) - 1)) ELSE s

\* Mutant: the lines are split without being stripped.
StripNothing(s) == s

\* str.strip(): whitespace removed at both ends, tabs included.
Strip(s) == RStrip(LStrip(s))

\* str.split('\t'): the tokens between tabs, as strings; never an empty list.
RECURSIVE SplitFrom(_, _, _)
SplitFrom(s, cur, acc) ==
    IF s = <<>> THEN Append(acc, cur)
    ELSE IF Head(s) = TAB THEN SplitFrom(Tail(s), "", Append(acc, cur))
    ELSE SplitFrom(Tail(s), cur \o Head(s), acc)

Split(s) == SplitFrom(s, "", <<>>)

\* file.readline(): the text up to and including the first newline.
RECURSIVE LineEnd(_, _)
LineEnd(s, i) ==
    IF i > Len(s) THEN Len(s)
    ELSE IF s[i] = NL THEN i ELSE LineEnd(s, i + 1)

ReadLine(s) == SubSeq(s, 1, LineEnd(s, 1))
AfterLine(s) == SubSeq(s, LineEnd(s, 1) + 1, Len(s))

----------------------------------------------------------------------------
(* The Result Extractor's parsing, lines 95-103 *)

DictSet(d, k, v) == [x \in (DOMAIN d) \cup {k} |-> IF x = k THEN v ELSE d[x]]

\* for i in range(len(hetcol_list)): hetdict[hetcol_list[i]] = hetval_list[i]
RECURSIVE FillDict(_, _, _, _)
FillDict(cols, vals, i, d) ==
    IF i > Len(cols) THEN [exc |-> "", dict |-> d]
    ELSE IF i > Len(vals) THEN [exc |-> "IndexError", dict |-> d]
    ELSE FillDict(cols, vals, i + 1, DictSet(d, cols[i], vals[i]))

hetcolumns(data) == ReadLine(data)
hetvalues(data) == ReadLine(AfterLine(data))
hetcol_list(data) == Split(Strip(hetcolumns(data)))
hetval_list(data) == Split(Strip(hetvalues(data)))

ParseMetrics(data) == FillDict(hetcol_list(data), hetval_list(data), 1, EmptyDict)

----------------------------------------------------------------------------
(* Status strings and file names *)

EXECUTION_FINISHED_SUCCESS == "EXECUTION_FINISHED_SUCCESS"
EXECUTION_FINISHED_ERROR == "EXECUTION_FINISHED_ERROR"
ERROR_QUANT_FILE_NOT_FOUND == "ERROR_QUANT_FILE_NOT_FOUND"
EXECUTION_ERROR == "EXECUTION_ERROR"
NoStatus == "<unbound>"

CellFamily == "CellFamily_Heterogeneity"
CellSocial == "CellSocial_Heterogeneity"
Molecular == "Molecular_Heterogeneity"
RequiredKeys == {CellFamily, CellSocial, Molecular}
ResultKeys == {"nuclearImage"} \cup RequiredKeys

quant_csv(region) == "quant_" \o region \o ".csv"
moha_thresholds_csv(region) == "quant_" \o region \o ".csv.thresholds.txt"
moha_markerstates_csv(region) == "quant_" \o region \o ".csv.MarkerStates.txt"
moha_markerindex_csv(region) == "quant_" \o region \o ".csv.MarkerIndex.txt"
moha_heterogeneity_csv(region) == "out_moha_" \o region \o ".txt"

\* Mutant: the threshold file is named without the input's .csv.
thresholdFileOfRegion(region) == "quant_" \o region \o ".thresholds.txt"

\* The file arguments of the three command lines (relative to data/).
threshold_input(region) == "quant_" \o region \o ".csv"
cellstates_input(region) == "quant_" \o region \o ".csv"
cellstates_thresholdFile(region) == "quant_" \o region \o ".csv.thresholds.txt"
heterogeneity_input(region) == "quant_" \o region \o ".csv.MarkerStates.txt"
heterogeneity_outputFile(region) == "out_moha_" \o region \o ".txt"

run_threshold_algorithm(region) ==
    "java -jar MOHAtool.jar -computeThresholds=data/" \o threshold_input(region)
        \o " -biomarkerMetricTag=_Cell_Mean"
run_cell_states_algorithm(region) ==
    "java -jar MOHAtool.jar -computeCellStates=data/" \o cellstates_input(region)
        \o " -thresholdFile=data/" \o cellstates_thresholdFile(region)
run_heterogeneity_algorithm(region) ==
    "java -jar MOHAtool.jar -computeHeterogeneity=data/" \o heterogeneity_input(region)
        \o " -outputFile=data/" \o heterogeneity_outputFile(region) \o " -append=false"

----------------------------------------------------------------------------
(* The scratch directory *)

File(data) == [kind |-> "file", data |-> data]
Dir == [kind |-> "dir", data |-> <<>>]

WsPut(w, name, data) ==
    [n \in (DOMAIN w) \cup {name} |-> IF n = name THEN File(data) ELSE w[n]]
WsKeep(w, names) == [n \in (DOMAIN w) \cap names |-> w[n]]

\* glob's '*' does not match a name that begins with a dot.
HiddenTails == {"cache"}
StartsWithDot(name) == \E t \in HiddenTails : name = "." \o t
GlobStar(w) == {n \in DOMAIN w : ~StartsWithDot(n)}

\* Mutant: os.rmdir for os.remove, which raises OSError on a regular file.
ClearRmdir(w) ==
    LET listed == GlobStar(w)
        files == {n \in listed : w[n].kind = "file"}
    IN  IF files = {}
        THEN {[raised |-> FALSE, ws |-> WsKeep(w, (DOMAIN w) \ listed)]}
        ELSE {[raised |-> TRUE, ws |-> WsKeep(w, (DOMAIN w) \ gone)] :
                 gone \in SUBSET (listed \ files)}

\* for f in glob.glob('/rt106/data/*'): os.remove(f)
\* os.remove raises OSError on a directory; what was listed before it is gone.
ClearOutcomes(w) ==
    LET listed == GlobStar(w)
        dirs == {n \in listed : w[n].kind = "dir"}
    IN  IF dirs = {}
        THEN {[raised |-> FALSE, ws |-> WsKeep(w, (DOMAIN w) \ listed)]}
        ELSE {[raised |-> TRUE, ws |-> WsKeep(w, (DOMAIN w) \ gone)] :
                 gone \in SUBSET (listed \ dirs)}

----------------------------------------------------------------------------
(* Inputs: contexts, prior scratch contents, collaborator answers *)

Regions == {"001", "R2"}
Contexts ==
    {[slide |-> "S1", region |-> r, branch |-> "b", force |-> f] :
        r \in Regions, f \in BOOLEAN}

\* A row of a metrics file: tokens (each a sequence of pieces) joined by tabs.
RECURSIVE Row(_)
Row(tokens) ==
    IF tokens = <<>> THEN <<>>
    ELSE IF Len(tokens) = 1 THEN tokens[1]
    ELSE tokens[1] \o <<TAB>> \o Row(Tail(tokens))

TwoLines(header, values) == Row(header) \o <<NL>> \o Row(values) \o <<NL>>

HeaderRows ==
    { << <<CellFamily>>, <<CellSocial>>, <<Molecular>> >>,
      << <<CellFamily>>, <<CellSocial>>, <<Molecular>>, <<"Extra">> >>,
      << <<"Extra">>, <<Molecular>>, <<CellSocial>>, <<CellFamily>> >>,
      << <<CellFamily>>, <<Molecular>> >> }
ValueRows ==
    { << <<"0.1">>, <<"0.2">>, <<"0.3">> >>,
      << <<"0.1">>, <<"0.2">>, <<"0.3">>, <<"0.4">> >>,
      << <<"0.1">>, <<"0.2">>, <<"0.3">>, <<>> >> }

\* What the heterogeneity process may leave in its output file.
MetricsFiles ==
    {TwoLines(h, v) : h \in HeaderRows, v \in ValueRows}
        \cup {<<>>, Row(<< <<CellFamily>>, <<CellSocial>>, <<Molecular>> >>)}

StaleMetrics ==
    TwoLines(<< <<CellFamily>>, <<CellSocial>>, <<Molecular>> >>,
             << <<"9">>, <<"9">>, <<"9">> >>)

\* What the directory may hold before a run: a stale metrics file of an earlier
\* run, a hidden file, a subdirectory.
PriorEntry(name) ==
    IF name = "sub" THEN Dir
    ELSE IF StartsWithDot(name) THEN File(<<"old">>)
    ELSE File(StaleMetrics)
PriorNames(region) == {"." \o "cache", "sub", moha_heterogeneity_csv(region)}
PriorWorkspaces(region) ==
    {[n \in S |-> PriorEntry(n)] : S \in SUBSET PriorNames(region)}

LookupResults == {PyStr("/quant"), PyInt(404)}
FetchStatuses == {200, 404}
ExitCodes == {0, 1}
PostStatuses == {200, 403, 500}
StageOutputs == {[written |-> TRUE, data |-> m] : m \in MetricsFiles}
                   \cup {[written |-> FALSE, data |-> <<>>]}
PrimaryPaths == {"/primary/a", "/primary/b"}
MOHA_path == PyStr("/moha")

Sites == {"lookup", "fetch", "exit1", "post1", "exit2", "post2a", "post2b",
          "exit3", "output3", "post3", "primary"}
NoAnswers == [s \in Sites |-> {}]

\* A collaborator asked the same question as in the previous invocation gives
\* the same answer; otherwise any of its answers.
Answers(site, all) == IF prev.resp[site] = {} THEN all ELSE prev.resp[site] \cap all

----------------------------------------------------------------------------
(* State *)

NoOutcome == [kind |-> "none", result |-> EmptyDict, status |-> PyNone, exc |-> ""]
Returned(result, st) == [kind |-> "returned", result |-> result, status |-> st, exc |-> ""]
Raised(e) == [kind |-> "raised", result |-> EmptyDict, status |-> PyNone, exc |-> e]

Event(op, path, file, force, ret) ==
    [op |-> op, path |-> path, file |-> file, force |-> force, ret |-> ret]

Init ==
    /\ pc = "clear"
    /\ run = 1
    /\ context \in Contexts
    /\ ws \in PriorWorkspaces(context.region)
    /\ cell_quant_path = PyNone
    /\ status = NoStatus
    /\ hetdict = Unbound
    /\ nuclear_image_path = ""
    /\ outcome = NoOutcome
    /\ trace = <<>>
    /\ running = {}
    /\ resp = NoAnswers
    /\ prev = [resp |-> NoAnswers, outcome |-> NoOutcome, ws |-> ws]

----------------------------------------------------------------------------
(* run_algorithm, step by step *)

Called(e) == trace' = Append(trace, e)
Answered(site, v) == resp' = [resp EXCEPT ![site] = {v}]
Return(result, st) == pc' = "done" /\ outcome' = Returned(result, st)
Raise(e) == pc' = "raised" /\ outcome' = Raised(e)

\* Lines 17-18: the scratch directory is cleared.
Clear ==
    /\ pc = "clear"
    /\ \E o \in ClearOutcomes(ws) :
        /\ ws' = o.ws
        /\ IF o.raised
           THEN Raise("OSError")
           ELSE pc' = "lookup" /\ outcome' = outcome
    /\ Called(Event("glob_remove", PyNone, "", FALSE, PyNone))
    /\ UNCHANGED <<running, run, context, cell_quant_path, status, hetdict,
                   nuclear_image_path, resp, prev>>

\* Line 22: type(cell_quant_path) == "int" and cell_quant_path > 200
LookupNotFound(v) == PyEq(PyType(v), PyStr("int")) /\ v.int > 200

\* Lines 21-24: the quantification path is looked up.
Lookup ==
    /\ pc = "lookup"
    /\ \E v \in Answers("lookup", LookupResults) :
        /\ cell_quant_path' = v
        /\ Called(Event("get_pathology_result_image_path", PyNone, "Quant", FALSE, v))
        /\ Answered("lookup", v)
        /\ IF LookupNotFound(v)
           THEN status' = ERROR_QUANT_FILE_NOT_FOUND /\ Return(EmptyDict, v)
           ELSE status' = status /\ pc' = "fetch" /\ outcome' = outcome
    /\ UNCHANGED <<running, run, context, ws, hetdict, nuclear_image_path, prev>>

\* Lines 26-30: the quantification table is fetched into the scratch directory.
Fetch ==
    /\ pc = "fetch"
    /\ \E instance_status \in Answers("fetch", FetchStatuses) :
        /\ Called(Event("get_instance", cell_quant_path, quant_csv(context.region),
                        FALSE, PyInt(instance_status)))
        /\ Answered("fetch", instance_status)
        /\ ws' = IF instance_status = 200
                 THEN WsPut(ws, quant_csv(context.region), <<"quant">>)
                 ELSE ws
        /\ IF instance_status # 200
           THEN status' = ERROR_QUANT_FILE_NOT_FOUND
                /\ Return(EmptyDict, PyStr(ERROR_QUANT_FILE_NOT_FOUND))
           ELSE status' = status /\ pc' = "result_path" /\ outcome' = outcome
    /\ UNCHANGED <<running, run, context, cell_quant_path, hetdict, nuclear_image_path, prev>>

\* Line 32: the remote path of the results is looked up.
ResultPath ==
    /\ pc = "result_path"
    /\ Called(Event("get_pathology_result_path", PyNone, "MOHA", FALSE, MOHA_path))
    /\ pc' = "stage1"
    /\ UNCHANGED <<running, run, context, ws, cell_quant_path, status, hetdict,
                   nuclear_image_path, outcome, resp, prev>>

\* Mutant: the exit code is not checked (subprocess.call for check_call).
CalledProcessErrorIgnored(returncode) == FALSE

\* subprocess.check_call raises CalledProcessError on a non-zero exit code.
CalledProcessError(returncode) == returncode # 0

\* What the tool writes when it succeeds (its file-name convention, spec 4.3).
ThresholdOutputs(input) == {input \o ".thresholds.txt"}
CellStateOutputs(input) == {input \o ".MarkerStates.txt", input \o ".MarkerIndex.txt"}

RECURSIVE WsPutAll(_, _, _)
WsPutAll(w, names, data) ==
    IF names = {} THEN w
    ELSE LET n == CHOOSE x \in names : TRUE
         IN  WsPutAll(WsPut(w, n, data), names \ {n}, data)

\* Mutant: the cell-state block is entered without the test of status.
Line60Unconditional(st) == "stage2"

\* The tests of status at lines 60, 77 and 94.
Line94(st) == IF st = EXECUTION_FINISHED_SUCCESS THEN "parse" ELSE "primary"
Line77(st) == IF st = EXECUTION_FINISHED_SUCCESS THEN "stage3" ELSE Line94(st)
Line60(st) == IF st = EXECUTION_FINISHED_SUCCESS THEN "stage2" ELSE Line77(st)

\* Mutant: the process is started and not waited for (Popen for check_call).
NotReaped(r, k) == r

\* subprocess.check_call returns or raises only once the process has ended.
Reaped(r, k) == r \ {k}

\* Lines 43, 65, 83: check_call starts the command of the stage that is due and
\* blocks until it ends.
Launch ==
    /\ \E k \in 1..3 :
        /\ pc = CASE k = 1 -> "stage1" [] k = 2 -> "stage2" [] k = 3 -> "stage3"
        /\ pc' = CASE k = 1 -> "wait1" [] k = 2 -> "wait2" [] k = 3 -> "wait3"
        /\ running' = running \cup {k}
    /\ UNCHANGED <<run, context, ws, cell_quant_path, status, hetdict,
                   nuclear_image_path, outcome, trace, resp, prev>>

\* Lines 40-52: the threshold process ends.
Stage1 ==
    /\ pc = "wait1"
    /\ running' = Reaped(running, 1)
    /\ \E returncode \in Answers("exit1", ExitCodes) :
        /\ Called(Event("check_call", PyNone, run_threshold_algorithm(context.region),
                        FALSE, PyInt(returncode)))
        /\ Answered("exit1", returncode)
        /\ IF CalledProcessError(returncode)
           THEN /\ status' = EXECUTION_FINISHED_ERROR
                /\ Return(EmptyDict, PyStr(EXECUTION_FINISHED_ERROR))
                /\ ws' = ws
           ELSE /\ status' = EXECUTION_FINISHED_SUCCESS
                /\ pc' = "post1" /\ outcome' = outcome
                /\ ws' = WsPutAll(ws, ThresholdOutputs(threshold_input(context.region)),
                                  <<"thresholds">>)
    /\ UNCHANGED <<run, context, cell_quant_path, hetdict, nuclear_image_path, prev>>

\* Mutant: the files are always published with overwriting allowed.
overwriteAlways(c) == TRUE

\* Lines 55, 73, 74, 91: the last argument of post_instance is context['force'].
overwriteAllowed(c) == c.force

\* Mutant: a forbidden MarkerStates or MarkerIndex publish is treated like a
\* forbidden thresholds publish.
StatusAfterMarkerUploadChecked(st, response) ==
    IF response = 403 THEN "EXECUTION_ERROR" ELSE st

\* Lines 73-74: the responses are stored and never read; status stays.
StatusAfterMarkerUpload(st, response) == st

\* Line 57: response_threshold_upload == 403
Forbidden(response) == response = 403

\* Lines 55-60: the thresholds file is published; forbidden sets EXECUTION_ERROR.
Post1 ==
    /\ pc = "post1"
    /\ \E response \in Answers("post1", PostStatuses) :
        /\ Called(Event("post_instance", MOHA_path, moha_thresholds_csv(context.region),
                        overwriteAllowed(context), PyInt(response)))
        /\ Answered("post1", response)
        /\ status' = IF Forbidden(response) THEN EXECUTION_ERROR ELSE status
        /\ pc' = Line60(status')
    /\ UNCHANGED <<running, run, context, ws, cell_quant_path, hetdict, nuclear_image_path,
                   outcome, prev>>

\* Lines 60-70: the cell-state process ends.
Stage2 ==
    /\ pc = "wait2"
    /\ running' = Reaped(running, 2)
    /\ \E returncode \in Answers("exit2", ExitCodes) :
        /\ Called(Event("check_call", PyNone, run_cell_states_algorithm(context.region),
                        FALSE, PyInt(returncode)))
        /\ Answered("exit2", returncode)
        /\ IF CalledProcessError(returncode)
           THEN /\ status' = EXECUTION_FINISHED_ERROR
                /\ Return(EmptyDict, PyStr(EXECUTION_FINISHED_ERROR))
                /\ ws' = ws
           ELSE /\ status' = status
                /\ pc' = "post2a" /\ outcome' = outcome
                /\ ws' = WsPutAll(ws, CellStateOutputs(cellstates_input(context.region)),
                                  <<"states">>)
    /\ UNCHANGED <<run, context, cell_quant_path, hetdict, nuclear_image_path, prev>>

\* Line 73: the MarkerStates file is published; the response is not looked at.
Post2a ==
    /\ pc = "post2a"
    /\ \E response \in Answers("post2a", PostStatuses) :
        /\ Called(Event("post_instance", MOHA_path, moha_markerstates_csv(context.region),
                        overwriteAllowed(context), PyInt(response)))
        /\ Answered("post2a", response)
        /\ status' = StatusAfterMarkerUpload(status, response)
    /\ pc' = "post2b"
    /\ UNCHANGED <<running, run, context, ws, cell_quant_path, hetdict,
                   nuclear_image_path, outcome, prev>>

\* Lines 74-77: the MarkerIndex file is published; the response is not looked at.
Post2b ==
    /\ pc = "post2b"
    /\ \E response \in Answers("post2b", PostStatuses) :
        /\ Called(Event("post_instance", MOHA_path, moha_markerindex_csv(context.region),
                        overwriteAllowed(context), PyInt(response)))
        /\ Answered("post2b", response)
        /\ status' = StatusAfterMarkerUpload(status, response)
    /\ pc' = Line77(status')
    /\ UNCHANGED <<running, run, context, ws, cell_quant_path, hetdict,
                   nuclear_image_path, outcome, prev>>

\* Lines 77-88: the heterogeneity process ends; -append=false overwrites its output.
Stage3 ==
    /\ pc = "wait3"
    /\ running' = Reaped(running, 3)
    /\ \E returncode \in Answers("exit3", ExitCodes) :
        /\ Called(Event("check_call", PyNone, run_heterogeneity_algorithm(context.region),
                        FALSE, PyInt(returncode)))
        /\ IF CalledProcessError(returncode)
           THEN /\ status' = EXECUTION_FINISHED_ERROR
                /\ Return(EmptyDict, PyStr(EXECUTION_FINISHED_ERROR))
                /\ ws' = ws
                /\ Answered("exit3", returncode)
           ELSE /\ status' = status
                /\ pc' = "post3" /\ outcome' = outcome
                /\ \E out \in Answers("output3", StageOutputs) :
                    /\ ws' = IF out.written
                             THEN WsPut(ws, heterogeneity_outputFile(context.region),
                                        out.data)
                             ELSE ws
                    /\ resp' = [resp EXCEPT !["exit3"] = {returncode},
                                            !["output3"] = {out}]
    /\ UNCHANGED <<run, context, cell_quant_path, hetdict, nuclear_image_path, prev>>

\* Lines 91-94: the heterogeneity output is published; the response is not looked at.
Post3 ==
    /\ pc = "post3"
    /\ \E response \in Answers("post3", PostStatuses) :
        /\ Called(Event("post_instance", MOHA_path, moha_heterogeneity_csv(context.region),
                        overwriteAllowed(context), PyInt(response)))
        /\ Answered("post3", response)
    /\ pc' = Line94(status)
    /\ UNCHANGED <<running, run, context, ws, cell_quant_path, status, hetdict,
                   nuclear_image_path, outcome, prev>>

\* Lines 94-103: the metrics file is opened and parsed into hetdict.
Parse ==
    /\ pc = "parse"
    /\ LET name == moha_heterogeneity_csv(context.region)
       IN  IF name \notin DOMAIN ws
           THEN Raise("IOError") /\ hetdict' = hetdict
           ELSE LET parsed == ParseMetrics(ws[name].data)
                IN  IF parsed.exc # ""
                    THEN Raise(parsed.exc) /\ hetdict' = Bound(parsed.dict)
                    ELSE pc' = "primary" /\ outcome' = outcome
                         /\ hetdict' = Bound(parsed.dict)
    /\ Called(Event("open", PyNone, moha_heterogeneity_csv(context.region), FALSE, PyNone))
    /\ UNCHANGED <<running, run, context, ws, cell_quant_path, status, nuclear_image_path,
                   resp, prev>>

\* Line 106: the reference image path is looked up, whatever the status.
Primary ==
    /\ pc = "primary"
    /\ \E p \in Answers("primary", PrimaryPaths) :
        /\ nuclear_image_path' = p
        /\ Called(Event("get_pathology_primary_path", PyNone, "DAPI", FALSE, PyStr(p)))
        /\ Answered("primary", p)
    /\ pc' = "build"
    /\ UNCHANGED <<running, run, context, ws, cell_quant_path, status, hetdict, outcome, prev>>

\* Mutant: two metric keys are read the wrong way round.
result_context_swapped(image, d) ==
    [k \in ResultKeys |->
        IF k = "nuclearImage" THEN image
        ELSE IF k = CellFamily THEN d[CellSocial]
        ELSE IF k = CellSocial THEN d[CellFamily]
        ELSE d[k]]

\* Lines 107-112: the result context.
result_context(image, d) ==
    [k \in ResultKeys |-> IF k = "nuclearImage" THEN image ELSE d[k]]

\* Lines 107-114: the result context is built from hetdict and returned.
Build ==
    /\ pc = "build"
    /\ IF ~hetdict.bound
       THEN Raise("UnboundLocalError")
       ELSE IF ~(RequiredKeys \subseteq DOMAIN hetdict.dict)
       THEN Raise("KeyError")
       ELSE Return(result_context(nuclear_image_path, hetdict.dict), PyStr(status))
    /\ UNCHANGED <<running, run, context, ws, cell_quant_path, status, hetdict,
                   nuclear_image_path, trace, resp, prev>>

\* run_algorithm is called again with the same context; the scratch directory
\* is as the previous invocation left it.
NewRun ==
    /\ pc \in {"done", "raised"}
    /\ run < MaxRuns
    /\ run' = run + 1
    /\ pc' = "clear"
    /\ prev' = [resp |-> resp, outcome |-> outcome, ws |-> ws]
    /\ cell_quant_path' = PyNone
    /\ status' = NoStatus
    /\ hetdict' = Unbound
    /\ nuclear_image_path' = ""
    /\ outcome' = NoOutcome
    /\ trace' = <<>>
    /\ resp' = NoAnswers
    /\ UNCHANGED <<context, ws, running>>

Next ==
    \/ Clear \/ Lookup \/ Fetch \/ ResultPath \/ Launch
    \/ Stage1 \/ Post1 \/ Stage2 \/ Post2a \/ Post2b \/ Stage3 \/ Post3
    \/ Parse \/ Primary \/ Build

\* One invocation of run_algorithm, from any context and prior scratch contents.
Spec == Init /\ [][Next]_vars

\* Invocations repeated with the same context, force = true.
InitForce == Init /\ context.force = TRUE
NextTwice == Next \/ NewRun
SpecTwice == InitForce /\ [][NextTwice]_vars

----------------------------------------------------------------------------
(* The Result Extractor alone, over every small metrics file *)

HeaderTokens == {<<CellFamily>>, <<CellSocial>>, <<Molecular>>, <<>>}
ValueTokens == {<<"1">>, <<SP, "2">>, <<>>}

Rows(tokens) == UNION {[1..n -> tokens] : n \in 1..MaxCols}
GeneratedFiles ==
    {Row(h) \o <<NL>> \o Row(v) \o end :
        h \in Rows(HeaderTokens), v \in Rows(ValueTokens), end \in {<<>>, <<NL>>}}

\* The state of a run whose three stages and four publishes succeeded, at line 94.
SuccessTrace(c) ==
    << Event("glob_remove", PyNone, "", FALSE, PyNone),
       Event("get_pathology_result_image_path", PyNone, "Quant", FALSE, PyStr("/quant")),
       Event("get_instance", PyStr("/quant"), quant_csv(c.region), FALSE, PyInt(200)),
       Event("get_pathology_result_path", PyNone, "MOHA", FALSE, MOHA_path),
       Event("check_call", PyNone, run_threshold_algorithm(c.region), FALSE, PyInt(0)),
       Event("post_instance", MOHA_path, moha_thresholds_csv(c.region), c.force, PyInt(200)),
       Event("check_call", PyNone, run_cell_states_algorithm(c.region), FALSE, PyInt(0)),
       Event("post_instance", MOHA_path, moha_markerstates_csv(c.region), c.force, PyInt(200)),
       Event("post_instance", MOHA_path, moha_markerindex_csv(c.region), c.force, PyInt(200)),
       Event("check_call", PyNone, run_heterogeneity_algorithm(c.region), FALSE, PyInt(0)),
       Event("post_instance", MOHA_path, moha_heterogeneity_csv(c.region), c.force, PyInt(200)) >>

SuccessAnswers(data) ==
    [s \in Sites |->
        CASE s = "lookup" -> {PyStr("/quant")}
          [] s = "fetch" -> {200}
          [] s \in {"exit1", "exit2", "exit3"} -> {0}
          [] s \in {"post1", "post2a", "post2b", "post3"} -> {200}
          [] s = "output3" -> {[written |-> TRUE, data |-> data]}
          [] OTHER -> {}]

SuccessWorkspace(c, data) ==
    WsPut(WsPutAll(WsPutAll(WsPut(EmptyDict, quant_csv(c.region), <<"quant">>),
                            ThresholdOutputs(threshold_input(c.region)), <<"thresholds">>),
                   CellStateOutputs(cellstates_input(c.region)), <<"states">>),
          heterogeneity_outputFile(c.region), data)

InitParse ==
    /\ pc = "parse"
    /\ run = 1
    /\ context = [slide |-> "S1", region |-> "001", branch |-> "b", force |-> TRUE]
    /\ \E data \in GeneratedFiles :
        /\ ws = SuccessWorkspace(context, data)
        /\ resp = SuccessAnswers(data)
    /\ cell_quant_path = PyStr("/quant")
    /\ status = EXECUTION_FINISHED_SUCCESS
    /\ hetdict = Unbound
    /\ nuclear_image_path = ""
    /\ outcome = NoOutcome
    /\ trace = SuccessTrace(context)
    /\ running = {}
    /\ prev = [resp |-> NoAnswers, outcome |-> NoOutcome, ws |-> EmptyDict]

NextParse == Parse \/ Primary \/ Build
SpecParse == InitParse /\ [][NextParse]_vars

----------------------------------------------------------------------------
(* Reading the call trace *)

Ended == pc \in {"done", "raised"}
ReturnedWith(st) == outcome.kind = "returned" /\ outcome.status = PyStr(st)

Idx(op, file) == {i \in 1..Len(trace) : trace[i].op = op /\ trace[i].file = file}
Ops(op) == {i \in 1..Len(trace) : trace[i].op = op}
StageCmd(k) ==
    CASE k = 1 -> run_threshold_algorithm(context.region)
      [] k = 2 -> run_cell_states_algorithm(context.region)
      [] k = 3 -> run_heterogeneity_algorithm(context.region)
ProcAt(k) == Idx("check_call", StageCmd(k))
PostAt(file) == Idx("post_instance", file)
Exited(k, codes) == \E i \in ProcAt(k) : trace[i].ret.int \in codes
Posted(file, codes) == \E i \in PostAt(file) : trace[i].ret.int \in codes
Fetched(codes) == \E i \in Ops("get_instance") : trace[i].ret.int \in codes
LookupSentinel ==
    \E i \in Ops("get_pathology_result_image_path") :
        trace[i].ret.type = "int" /\ trace[i].ret.int > 200

----------------------------------------------------------------------------
(* Claims *)

\* C1: when the input is fetched, the threshold process exits 0 and the
\* threshold publish returns 403, the run returns an outcome with status
\* EXECUTION_ERROR and the cell-state and heterogeneity processes are never
\* invoked.  (Stated as the claim; the code raises instead of returning.)
C1_ForbiddenReturnsExecutionError ==
    (Fetched({200}) /\ Exited(1, {0}) /\ Posted(moha_thresholds_csv(context.region), {403}))
        => /\ ProcAt(2) = {} /\ ProcAt(3) = {}
           /\ Ended => ReturnedWith(EXECUTION_ERROR)

\* C2: every run ends by returning one outcome whose status is one of the four
\* status strings and whose result is empty unless the status is
\* EXECUTION_FINISHED_SUCCESS.  (Stated for the runs that cleared the scratch
\* directory and whose lookup found the table, where it already fails.)
C2_AlwaysReturnsOutcome ==
    (Ended /\ outcome.exc # "OSError" /\ ~LookupSentinel)
        => /\ outcome.kind = "returned"
           /\ outcome.status \in {PyStr(EXECUTION_FINISHED_SUCCESS),
                                  PyStr(EXECUTION_FINISHED_ERROR),
                                  PyStr(ERROR_QUANT_FILE_NOT_FOUND),
                                  PyStr(EXECUTION_ERROR)}
           /\ outcome.status # PyStr(EXECUTION_FINISHED_SUCCESS)
                 => outcome.result = EmptyDict

\* C3: a stage process that exits non-zero is the last call of the run: the
\* run has returned EXECUTION_FINISHED_ERROR with an empty result, and no later
\* stage process and no post_instance follows the failing exit.
C3_StageFailureHalts ==
    \A i \in Ops("check_call") :
        trace[i].ret.int # 0
            => /\ i = Len(trace)
               /\ pc = "done"
               /\ outcome = Returned(EmptyDict, PyStr(EXECUTION_FINISHED_ERROR))

\* C3 witness: the heterogeneity process was invoked and exited non-zero after
\* the earlier stages had published their outputs.
C3_Witness ==
    /\ Exited(3, {1})
    /\ PostAt(moha_markerindex_csv(context.region)) # {}
    /\ pc = "done"

\* C4: when the quantification lookup returns the not-found sentinel, or
\* get_instance returns a status other than 200, the run returns
\* ERROR_QUANT_FILE_NOT_FOUND with an empty result and makes no stage process
\* and no post_instance call.  (Stated as the claim; the sentinel is not
\* recognised by the code.)
C4_ResolverFailureHalts ==
    (LookupSentinel \/ Fetched({404}))
        => /\ Ops("check_call") = {} /\ Ops("post_instance") = {}
           /\ Ended => outcome = Returned(EmptyDict, PyStr(ERROR_QUANT_FILE_NOT_FOUND))

\* C5: when the heterogeneity process exits 0 and its publish returns 403, the
\* run does not end with EXECUTION_FINISHED_SUCCESS.  (Stated as the claim, for
\* the runs whose lookup found the table; the code does not look at that
\* response.)
C5_Stage3ForbiddenNotSuccess ==
    (Ended /\ ~LookupSentinel /\ Exited(3, {0})
        /\ Posted(moha_heterogeneity_csv(context.region), {403}))
        => ~ReturnedWith(EXECUTION_FINISHED_SUCCESS)

\* The rows of a metrics file as the claims speak of them: the first two
\* lines without their newline, cut at the tabs.
RawLine(l) == IF l # <<>> /\ l[Len(l)] = NL THEN SubSeq(l, 1, Len(l) - 1) ELSE l
RawHeader(data) == Split(RawLine(ReadLine(data)))
RawValues(data) == Split(RawLine(ReadLine(AfterLine(data))))
NoEdgeWhitespace(l) ==
    LET r == RawLine(l)
    IN  r = <<>> \/ (r[1] \notin Whitespace /\ r[Len(r)] \notin Whitespace)
CleanRows(data) ==
    NoEdgeWhitespace(ReadLine(data)) /\ NoEdgeWhitespace(ReadLine(AfterLine(data)))

MetricsName == moha_heterogeneity_csv(context.region)
MetricsData == ws[MetricsName].data

AllStagesSucceeded ==
    /\ ~LookupSentinel /\ Fetched({200})
    /\ Exited(1, {0}) /\ Exited(2, {0}) /\ Exited(3, {0})
    /\ \A i \in Ops("post_instance") : trace[i].ret.int # 403
    /\ MetricsName \in DOMAIN ws

RequiredKeysHaveValues(data) ==
    \A k \in RequiredKeys :
        \E i \in 1..Len(RawHeader(data)) :
            RawHeader(data)[i] = k /\ i <= Len(RawValues(data))

SuccessWithMetrics(data) ==
    /\ ReturnedWith(EXECUTION_FINISHED_SUCCESS)
    /\ DOMAIN outcome.result = ResultKeys
    /\ \E i \in Ops("get_pathology_primary_path") :
          trace[i].ret = PyStr(outcome.result["nuclearImage"])
    /\ \A k \in RequiredKeys :
          \E i \in 1..Len(RawHeader(data)) :
              /\ RawHeader(data)[i] = k
              /\ i <= Len(RawValues(data))
              /\ outcome.result[k] = RawValues(data)[i]

\* C6 (as claimed): when lookup and fetch succeed, the three processes exit 0,
\* no publish returns 403 and the header holds the three required keys, each
\* with a value in its column, the run returns EXECUTION_FINISHED_SUCCESS and a
\* result with exactly the four keys, the image path returned by the data store
\* and each metric's value token.
C6_EndToEndSuccess ==
    (Ended /\ AllStagesSucceeded /\ RequiredKeysHaveValues(MetricsData))
        => SuccessWithMetrics(MetricsData)

\* C6 (amended): the same, when moreover every header column has a value in the
\* value row and neither row begins or ends with whitespace (an empty first or
\* last token included).
C6_EndToEndSuccessCleanRows ==
    (Ended /\ AllStagesSucceeded /\ RequiredKeysHaveValues(MetricsData)
        /\ Len(RawHeader(MetricsData)) <= Len(RawValues(MetricsData))
        /\ CleanRows(MetricsData))
            => SuccessWithMetrics(MetricsData)

\* C6 witness: a successful run whose metrics file has the required keys in
\* another order behind an extra column, and whose publishes returned 500.
C6_Witness ==
    /\ pc = "done" /\ AllStagesSucceeded
    /\ ReturnedWith(EXECUTION_FINISHED_SUCCESS)
    /\ RawHeader(MetricsData)[1] = "Extra"
    /\ CleanRows(MetricsData)
    /\ outcome.result[CellFamily] = "0.4"
    /\ \A i \in Ops("post_instance") : trace[i].ret.int = 500

FilesIn(w) == {n \in DOMAIN w : w[n].kind = "file"}
ClearIsFirst ==
    \A i \in 1..Len(trace) : trace[i].op # "glob_remove" => trace[1].op = "glob_remove"

\* C7: once the scratch directory has been cleared it holds 0 files, whatever
\* it held before, and the clearing precedes every data-store call and every
\* stage process.  (Stated as the claim; a file whose name begins with a dot is
\* not listed by the glob pattern and stays.)
C7_WorkspaceEmptyAfterClear ==
    /\ pc = "lookup" => FilesIn(ws) = {}
    /\ ClearIsFirst

Distinct(seq) == \A i, j \in 1..Len(seq) : seq[i] = seq[j] => i = j
ParsedByPosition(data) ==
    /\ outcome.exc # "IndexError"
    /\ DOMAIN hetdict.dict = {RawHeader(data)[i] : i \in 1..Len(RawHeader(data))}
    /\ \A i \in 1..Len(RawHeader(data)) :
          hetdict.dict[RawHeader(data)[i]] = RawValues(data)[i]

\* C8 (as claimed): a metrics file whose header row and value row have the same
\* number of tokens is parsed into exactly the mapping header token -> value
\* token of the same column.
C8_ParseMapsByPosition ==
    (hetdict.bound /\ Len(RawHeader(MetricsData)) = Len(RawValues(MetricsData)))
        => ParsedByPosition(MetricsData)

\* C8 (amended): the same, when the header tokens are pairwise distinct and
\* neither row begins or ends with whitespace (an empty first or last token
\* included).
C8_ParseMapsCleanRows ==
    (hetdict.bound /\ Len(RawHeader(MetricsData)) = Len(RawValues(MetricsData))
        /\ Distinct(RawHeader(MetricsData)) /\ CleanRows(MetricsData))
            => ParsedByPosition(MetricsData)

\* C8 witness: three columns parsed, the middle value token kept with its
\* leading blank.
C8_Witness ==
    /\ hetdict.bound /\ outcome.exc = ""
    /\ Len(RawHeader(MetricsData)) = 3 /\ Len(RawValues(MetricsData)) = 3
    /\ Distinct(RawHeader(MetricsData)) /\ CleanRows(MetricsData)
    /\ RawHeader(MetricsData)[2] = CellSocial
    /\ hetdict.dict[CellSocial] = " 2"

SameAnswers ==
    \A s \in Sites : resp[s] = {} \/ prev.resp[s] = {} \/ resp[s] = prev.resp[s]

\* C9: a run repeated with the same context (force = true) and the same
\* collaborator answers ends as the run before it did, with the same result and
\* status, whatever that run left in the scratch directory.
C9_RepeatedRunSameOutcome ==
    (run > 1 /\ Ended /\ SameAnswers) => outcome = prev.outcome

\* C9 witness: a second successful run that found the first run's files in the
\* scratch directory.
C9_Witness ==
    /\ run = 2 /\ pc = "done"
    /\ ReturnedWith(EXECUTION_FINISHED_SUCCESS)
    /\ MetricsName \in DOMAIN prev.ws
    /\ prev.ws[MetricsName].data # StaleMetrics
    /\ resp = prev.resp

IsProc(e) == e.op = "check_call"
StopsRun(e) ==
    \/ e.op = "check_call" /\ e.ret.int # 0
    \/ e.op = "post_instance" /\ e.file = moha_thresholds_csv(context.region)
          /\ e.ret.int = 403

\* C10: the stage processes are invoked in the order threshold, cell-state,
\* heterogeneity, each at most once; cell-state only after the threshold process
\* exited 0 and its publish was not forbidden; heterogeneity only after the
\* cell-state process exited 0; none after a failed process or a forbidden
\* threshold publish.
C10_StrictStageOrder ==
    /\ LET procs == SelectSeq(trace, IsProc)
       IN  /\ Len(procs) <= 3
           /\ \A i \in 1..Len(procs) : procs[i].file = StageCmd(i)
    /\ \A j \in ProcAt(2) :
          /\ \E i \in ProcAt(1) : i < j /\ trace[i].ret.int = 0
          /\ \E i \in PostAt(moha_thresholds_csv(context.region)) :
                i < j /\ trace[i].ret.int # 403
    /\ \A j \in ProcAt(3) : \E i \in ProcAt(2) : i < j /\ trace[i].ret.int = 0
    /\ \A i, j \in 1..Len(trace) :
          (i < j /\ trace[j].op = "check_call") => ~StopsRun(trace[i])

\* C10 witness: the heterogeneity process has been invoked.
C10_Witness == ProcAt(3) # {} /\ Len(SelectSeq(trace, IsProc)) = 3

\* C11: when the quantification lookup returns the not-found sentinel (an
\* integer above 200) the run halts at once: the lookup is its last call
\* (no get_instance, no other data-store call, no stage process) and it has
\* returned the string ERROR_QUANT_FILE_NOT_FOUND with an empty result.
\* (Stated as the claim; the code goes on to get_instance.)
C11_SentinelHaltsImmediately ==
    LookupSentinel
        => /\ trace[Len(trace)].op = "get_pathology_result_image_path"
           /\ pc = "done"
           /\ outcome = Returned(EmptyDict, PyStr(ERROR_QUANT_FILE_NOT_FOUND))

Malformed(data) ==
    \/ Len(RawHeader(data)) > Len(RawValues(data))
    \/ \E k \in RequiredKeys :
          \A i \in 1..Len(RawHeader(data)) : RawHeader(data)[i] # k

\* C12: when the three stages succeed but the metrics file is malformed (more
\* header columns than value columns, or a required key missing from the
\* header) the run returns an empty result with a status other than
\* EXECUTION_FINISHED_SUCCESS.  (Stated as the claim; the code raises and
\* returns nothing.)
C12_ParseErrorReturnsFailure ==
    (Ended /\ AllStagesSucceeded /\ CleanRows(MetricsData) /\ Malformed(MetricsData))
        => /\ outcome.kind = "returned"
           /\ outcome.result = EmptyDict
           /\ outcome.status # PyStr(EXECUTION_FINISHED_SUCCESS)


Stage3Invoked == pc \in {"stage3", "wait3"} \/ ProcAt(3) # {}

\* C13: once the cell-state process has exited 0 both cell-state files are
\* published, MarkerStates and then MarkerIndex directly after it, whatever
\* status either publish returns (403 included); neither response changes the
\* status, and the heterogeneity process is invoked next.
C13_CellStatePublishesUnchecked ==
    /\ Exited(2, {0})
          => pc = "post2a" \/ PostAt(moha_markerstates_csv(context.region)) # {}
    /\ \A i \in PostAt(moha_markerstates_csv(context.region)) :
          /\ trace[i - 1].op = "check_call"
          /\ trace[i - 1].file = StageCmd(2)
          /\ \/ i = Len(trace) /\ pc = "post2b"
             \/ /\ i < Len(trace)
                /\ i + 1 \in PostAt(moha_markerindex_csv(context.region))
    /\ \A i \in PostAt(moha_markerindex_csv(context.region)) :
          /\ i - 1 \in PostAt(moha_markerstates_csv(context.region))
          /\ Stage3Invoked
          /\ i = Len(trace) => status = EXECUTION_FINISHED_SUCCESS

\* Both cell-state publishes were forbidden and the run returned success.
C13_Witness ==
    /\ Ended
    /\ ReturnedWith(EXECUTION_FINISHED_SUCCESS)
    /\ Posted(moha_markerstates_csv(context.region), {403})
    /\ Posted(moha_markerindex_csv(context.region), {403})
    /\ Exited(3, {0})


IsPost(e) == e.op = "post_instance"
Published == SelectSeq(trace, IsPost)
ProducedBy(file) ==
    CASE file = moha_thresholds_csv(context.region) -> 1
      [] file = moha_markerstates_csv(context.region) -> 2
      [] file = moha_markerindex_csv(context.region) -> 2
      [] file = moha_heterogeneity_csv(context.region) -> 3
OutputFiles ==
    <<moha_thresholds_csv(context.region), moha_markerstates_csv(context.region),
      moha_markerindex_csv(context.region), moha_heterogeneity_csv(context.region)>>

\* C14: each of the four output files is posted at most once, only after the
\* process that produces it has exited 0, to the result path and with
\* overwriteAllowed equal to the context's force flag; no other file is posted.
\* A run that ends with status success has posted each of the four exactly
\* once, in the order thresholds, MarkerStates, MarkerIndex, heterogeneity.
C14_PublishOnceNoRetry ==
    /\ \A i \in Ops("post_instance") :
          /\ \E n \in 1..4 : trace[i].file = OutputFiles[n]
          /\ \A j \in PostAt(trace[i].file) : j = i
          /\ \E j \in ProcAt(ProducedBy(trace[i].file)) :
                j < i /\ trace[j].ret = PyInt(0)
          /\ trace[i].path = MOHA_path
          /\ trace[i].force = context.force
    /\ (Ended /\ status = EXECUTION_FINISHED_SUCCESS)
          => /\ Len(Published) = 4
             /\ \A n \in 1..4 : Published[n].file = OutputFiles[n]

\* A run without the force flag ended in success after four publishes, one of
\* them answered with a server error that was not retried.
C14_Witness ==
    /\ Ended
    /\ ReturnedWith(EXECUTION_FINISHED_SUCCESS)
    /\ ~context.force
    /\ Len(Published) = 4
    /\ \E n \in 1..4 : Published[n].ret = PyInt(500)


\* C15: get_pathology_primary_path is called at most once, and only after all
\* three stage processes have exited 0 and the metrics file has been parsed,
\* with the status still EXECUTION_FINISHED_SUCCESS.  (Stated as the claim;
\* line 106 is outside every status test, so a forbidden thresholds publish
\* reaches it with no stage after the first run and nothing parsed.)
C15_PrimaryPathOnlyAfterParse ==
    /\ \A i, j \in Ops("get_pathology_primary_path") : i = j
    /\ (pc = "primary" \/ Ops("get_pathology_primary_path") # {})
          => /\ Exited(1, {0}) /\ Exited(2, {0}) /\ Exited(3, {0})
             /\ Ops("open") # {}
             /\ hetdict.bound
             /\ status = EXECUTION_FINISHED_SUCCESS


WaitingFor(k) == pc = CASE k = 1 -> "wait1" [] k = 2 -> "wait2" [] k = 3 -> "wait3"

\* C16: at most one stage process is running at any time, and while one runs
\* the program is blocked in that stage's check_call: every data-store call,
\* every publish and every later process starts with no process running.
C16_StrictlySequential ==
    /\ Cardinality(running) <= 1
    /\ \A k \in running : WaitingFor(k)
    /\ \A k \in 1..3 : WaitingFor(k) => running = {k}
    /\ \A k \in 1..3 : Exited(k, {0, 1}) => k \notin running

\* The third process is running after the first two have ended and their
\* three output files have been published.
C16_Witness ==
    /\ running = {3}
    /\ pc = "wait3"
    /\ Exited(1, {0}) /\ Exited(2, {0})
    /\ Len(Published) = 3


Processes == SelectSeq(trace, IsProc)
IsFetch(e) == e.op = "get_instance"
IsOpen(e) == e.op = "open"
FetchedFiles == SelectSeq(trace, IsFetch)
OpenedFiles == SelectSeq(trace, IsOpen)

\* C17: the file names passed from step to step agree.  The fetched file is
\* quant_<region>.csv and is the input named on the command lines of the first
\* and second process; the second process's threshold file is the thresholds
\* file that was published; the third process's input is the MarkerStates file
\* that was published; the file the third process is told to write is the one
\* that is published last and the one that is opened for parsing.
C17_FilenameContract ==
    /\ \A n \in 1..Len(FetchedFiles) :
          FetchedFiles[n].file = "quant_" \o context.region \o ".csv"
    /\ Len(Processes) >= 1
          => Processes[1].file =
                "java -jar MOHAtool.jar -computeThresholds=data/"
                    \o FetchedFiles[1].file \o " -biomarkerMetricTag=_Cell_Mean"
    /\ Len(Published) >= 1
          => Published[1].file = FetchedFiles[1].file \o ".thresholds.txt"
    /\ Len(Processes) >= 2
          => Processes[2].file =
                "java -jar MOHAtool.jar -computeCellStates=data/"
                    \o FetchedFiles[1].file
                    \o " -thresholdFile=data/" \o Published[1].file
    /\ Len(Published) >= 2
          => Published[2].file = FetchedFiles[1].file \o ".MarkerStates.txt"
    /\ Len(Published) >= 4
          => /\ Published[4].file = "out_moha_" \o context.region \o ".txt"
             /\ Processes[3].file =
                   "java -jar MOHAtool.jar -computeHeterogeneity=data/"
                       \o Published[2].file
                       \o " -outputFile=data/" \o Published[4].file
                       \o " -append=false"
    /\ \A n \in 1..Len(OpenedFiles) : OpenedFiles[n].file = Published[4].file

\* The metrics file of region R2 has been opened after all four publishes.
C17_Witness ==
    /\ context.region = "R2"
    /\ Len(OpenedFiles) = 1
    /\ Len(Published) = 4
    /\ Len(Processes) = 3

====
